---------------------------- MODULE Spec2Model ----------------------------
(***************************************************************************)
(* Model of the in-memory movie booking service (BookingService).          *)
(*                                                                         *)
(* Every show owns one std::atomic<uint32_t> booked_mask.  book_seats      *)
(* validates its request without touching shared memory and then merges    *)
(* the request mask into booked_mask with a load followed by a             *)
(* compare_exchange_weak loop; list_available_seats reads the mask once    *)
(* and decodes the clear bits.  Threads interleave at the atomic           *)
(* operations (load, compare-exchange); everything between two atomic      *)
(* operations is thread-local.                                             *)
(*                                                                         *)
(* A std::string is modelled as the sequence of its characters, each a     *)
(* one-character string; a uint32_t is the set of its 1-bit positions.      *)
(***************************************************************************)
EXTENDS Integers, Sequences, FiniteSets

(***************************************************************************)
(* Bounds of the model.                                                    *)
(***************************************************************************)
NumThreads == 2      \* concurrent caller threads
MaxCalls == 3        \* API calls made in a run, over all threads

Threads == 1..NumThreads

(***************************************************************************)
(* Program constants.                                                      *)
(***************************************************************************)
kSeatCount == 20
MaskBits == 32
IntMax == 2147483647
IntMin == (0 - IntMax) - 1

(***************************************************************************)
(* std::uint32_t masks.  A mask is modelled by the set of the positions    *)
(* (0 = least significant .. 31) of its 1 bits: 0u is {}, & is             *)
(* intersection, | is union and 1u << i is {i}.                            *)
(***************************************************************************)
BitPositions == 0..(MaskBits - 1)

\* the seats of a show: bits 0 .. kSeatCount - 1
SeatIndices == 0..(kSeatCount - 1)

Zero == {}

BitAnd(a, b) == a \cap b

BitOr(a, b) == a \cup b

\* 1u << i; the shift is defined for 0 <= i < 32 only
Shl1(i) == {i} \cap BitPositions

(***************************************************************************)
(* Characters and std::string helpers.                                     *)
(***************************************************************************)
DigitChars == <<"0", "1", "2", "3", "4", "5", "6", "7", "8", "9">>

IsDigit(c) == \E d \in 1..10 : DigitChars[d] = c

DigitVal(c) == (CHOOSE d \in 1..10 : DigitChars[d] = c) - 1

IsSpace(c) == c \in {" ", "\t", "\n", "\r", "\f"}

Substr(s, from) == SubSeq(s, from, Len(s))

\* std::to_string of a non-negative int
RECURSIVE to_string(_)
to_string(n) ==
    IF n < 10 THEN <<DigitChars[n + 1]>>
    ELSE to_string(n \div 10) \o <<DigitChars[(n % 10) + 1]>>

(***************************************************************************)
(* std::stoi(str, &pos), base 10: skips leading whitespace, takes an       *)
(* optional sign, then the longest run of digits.  No digit: throws        *)
(* std::invalid_argument.  Value outside int: throws std::out_of_range.    *)
(* Result: [thrown, num, pos], pos = number of characters consumed.        *)
(***************************************************************************)
RECURSIVE SkipSpaces(_, _)
SkipSpaces(s, i) ==
    IF i <= Len(s) /\ IsSpace(s[i]) THEN SkipSpaces(s, i + 1) ELSE i

RECURSIVE DigitsEnd(_, _)
DigitsEnd(s, i) ==
    IF i <= Len(s) /\ IsDigit(s[i]) THEN DigitsEnd(s, i + 1) ELSE i

\* The digits s[i..j-1] accumulated as a non-positive int (so that INT_MIN
\* is representable); Overflow when the magnitude exceeds 2^31.
Overflow == 1

RECURSIVE DigitsNeg(_, _, _, _)
DigitsNeg(s, i, j, acc) ==
    IF i >= j \/ acc = Overflow THEN acc
    ELSE LET d == DigitVal(s[i])
         IN  IF acc < IntMin \div 10 + 1 \/ 10 * acc < IntMin + d
             THEN Overflow
             ELSE DigitsNeg(s, i + 1, j, 10 * acc - d)

Thrown == [thrown |-> TRUE, num |-> 0, pos |-> 0]

stoi(s) ==
    LET i0 == SkipSpaces(s, 1)
        neg == i0 <= Len(s) /\ s[i0] = "-"
        i1 == IF i0 <= Len(s) /\ s[i0] \in {"+", "-"} THEN i0 + 1 ELSE i0
        i2 == DigitsEnd(s, i1)
        acc == DigitsNeg(s, i1, i2, 0)
    IN  IF i2 = i1 THEN Thrown                          \* std::invalid_argument
        ELSE IF acc = Overflow THEN Thrown              \* std::out_of_range
        ELSE IF ~neg /\ acc = IntMin THEN Thrown        \* std::out_of_range
        ELSE [thrown |-> FALSE, num |-> IF neg THEN acc ELSE 0 - acc, pos |-> i2 - 1]

(***************************************************************************)
(* BookingService::try_parse_seat_label.  Result [ok, index0]; index0 is   *)
(* meaningful only when ok (out_index0 is not written on failure).         *)
(***************************************************************************)
NoIndex == -1

\* the range test made against the width of the mask, not the seat count
try_parse_seat_label_MaskWidth(label) ==
    LET fail == [ok |-> FALSE, index0 |-> NoIndex]
    IN  IF Len(label) < 2 THEN fail
        ELSE LET row == IF label[1] = "A" THEN "a" ELSE label[1]
             IN  IF row # "a" THEN fail
                 ELSE LET r == stoi(Substr(label, 2))
                      IN  IF r.thrown THEN fail
                          ELSE IF r.pos # Len(label) - 1 THEN fail
                          ELSE IF r.num < 1 \/ r.num > MaskBits THEN fail
                          ELSE [ok |-> TRUE, index0 |-> r.num - 1]

\* out_index0 assigned before the range test instead of after it
try_parse_seat_label_WritesFirst(label) ==
    LET fail == [ok |-> FALSE, index0 |-> NoIndex]
    IN  IF Len(label) < 2 THEN fail
        ELSE LET row == IF label[1] = "A" THEN "a" ELSE label[1]
             IN  IF row # "a" THEN fail
                 ELSE LET r == stoi(Substr(label, 2))
                      IN  IF r.thrown THEN fail
                          ELSE IF r.pos # Len(label) - 1 THEN fail
                          ELSE IF r.num < 1 \/ r.num > kSeatCount
                               THEN [ok |-> FALSE, index0 |-> r.num - 1]
                          ELSE [ok |-> TRUE, index0 |-> r.num - 1]

try_parse_seat_label(label) ==
    LET fail == [ok |-> FALSE, index0 |-> NoIndex]
    IN  IF Len(label) < 2 THEN fail
        ELSE LET row == IF label[1] = "A" THEN "a" ELSE label[1]
             IN  IF row # "a" THEN fail
                 ELSE LET r == stoi(Substr(label, 2))
                      IN  IF r.thrown THEN fail
                          ELSE IF r.pos # Len(label) - 1 THEN fail
                          ELSE IF r.num < 1 \/ r.num > kSeatCount THEN fail
                          ELSE [ok |-> TRUE, index0 |-> r.num - 1]

(***************************************************************************)
(* BookingService::seat_label_from_index0.                                 *)
(***************************************************************************)
\* the index printed as it is: labels a0 .. a19
seat_label_from_index0_ZeroBased(index0) == <<"a">> \o to_string(index0)

seat_label_from_index0(index0) == <<"a">> \o to_string(index0 + 1)

(***************************************************************************)
(* BookingService::seats_to_mask_or_fail.  Result [mask, err, label]:      *)
(* err = "" on success; otherwise err is the message prefix and label the  *)
(* offending label appended to it, and mask is 0.                          *)
(***************************************************************************)
NoLabel == <<>>
MsgInvalidLabel == "Invalid seat label: "
MsgDuplicateLabel == "Duplicate seat label: "

\* the duplicate test comparing the label with the earlier labels as strings
RECURSIVE MaskFrom_ByString(_, _, _)
MaskFrom_ByString(labels, k, mask) ==
    IF k > Len(labels) THEN [mask |-> mask, err |-> "", label |-> NoLabel]
    ELSE LET lbl == labels[k]
             p == try_parse_seat_label(lbl)
         IN  IF ~p.ok
             THEN [mask |-> Zero, err |-> MsgInvalidLabel, label |-> lbl]
             ELSE IF \E j \in 1..(k - 1) : labels[j] = lbl
                  THEN [mask |-> Zero, err |-> MsgDuplicateLabel, label |-> lbl]
                  ELSE MaskFrom_ByString(labels, k + 1, BitOr(mask, Shl1(p.index0)))

\* the duplicate test left out: a repeated seat is accepted
RECURSIVE MaskFrom_NoDuplicateTest(_, _, _)
MaskFrom_NoDuplicateTest(labels, k, mask) ==
    IF k > Len(labels) THEN [mask |-> mask, err |-> "", label |-> NoLabel]
    ELSE LET lbl == labels[k]
             p == try_parse_seat_label(lbl)
         IN  IF ~p.ok
             THEN [mask |-> Zero, err |-> MsgInvalidLabel, label |-> lbl]
             ELSE MaskFrom_NoDuplicateTest(labels, k + 1, BitOr(mask, Shl1(p.index0)))

RECURSIVE MaskFrom(_, _, _)
MaskFrom(labels, k, mask) ==
    IF k > Len(labels) THEN [mask |-> mask, err |-> "", label |-> NoLabel]
    ELSE LET lbl == labels[k]
             p == try_parse_seat_label(lbl)
         IN  IF ~p.ok
             THEN [mask |-> Zero, err |-> MsgInvalidLabel, label |-> lbl]
             ELSE LET bit == Shl1(p.index0)
                  IN  IF BitAnd(mask, bit) # Zero
                      THEN [mask |-> Zero, err |-> MsgDuplicateLabel, label |-> lbl]
                      ELSE MaskFrom(labels, k + 1, BitOr(mask, bit))

seats_to_mask_or_fail(labels) == MaskFrom(labels, 1, Zero)

(***************************************************************************)
(* The shows registered by the constructor, and the inputs of the model.   *)
(***************************************************************************)
shows_ == {1, 2, 3, 4}

a1 == <<"a", "1">>
a2 == <<"a", "2">>
a3 == <<"a", "3">>
a4 == <<"a", "4">>
a10 == <<"a", "1", "0">>
a21 == <<"a", "2", "1">>

\* seat 1 spelled with the capital row letter
A1 == <<"A", "1">>

\* the labels a1 .. a20, written out
AllLabels ==
    << <<"a", "1">>, <<"a", "2">>, <<"a", "3">>, <<"a", "4">>, <<"a", "5">>,
       <<"a", "6">>, <<"a", "7">>, <<"a", "8">>, <<"a", "9">>, <<"a", "1", "0">>,
       <<"a", "1", "1">>, <<"a", "1", "2">>, <<"a", "1", "3">>, <<"a", "1", "4">>,
       <<"a", "1", "5">>, <<"a", "1", "6">>, <<"a", "1", "7">>, <<"a", "1", "8">>,
       <<"a", "1", "9">>, <<"a", "2", "0">> >>

\* seat label lists the callers pass
Requests ==
    { <<>>,
      <<a1, a2, a3>>,
      <<a1, a4>>,
      <<a1, a1>>,
      <<a1, A1>>,
      <<a21>>,
      <<a10>> }

\* seats_to_mask_or_fail tabulated over the requests the callers pass
Encoded == [labels \in Requests \cup {AllLabels} |-> seats_to_mask_or_fail(labels)]

\* show ids the callers pass: two registered shows and an unknown one
CallShows == {1, 2, 9}

\* the book_seats calls made: every request on show 1, the whole house on
\* show 2, and a valid, an empty and a malformed request on an unknown show
BookCalls ==
    ({1} \X Requests) \cup
    {<<2, AllLabels>>, <<9, <<a1, a4>>>>, <<9, <<>>>>, <<9, <<a21>>>>}

(***************************************************************************)
(* BookingResult messages.                                                 *)
(***************************************************************************)
MsgInvalidShow == "Invalid show id"
MsgNoSeats == "No seats provided"
MsgAlreadyBooked == "One or more seats already booked"
MsgBooked == "Booked successfully"

NoResult == [success |-> FALSE, message |-> "", label |-> NoLabel]

Result(ok, msg, lbl) == [success |-> ok, message |-> msg, label |-> lbl]

(***************************************************************************)
(* show_state_: one ShowState cell per registered show; a cell is named    *)
(* by the show that owns it.  get_state / get_state_mut return the cell    *)
(* or nullptr.                                                             *)
(***************************************************************************)
nullptr == 0

show_state_ == [s \in shows_ |-> s]

\* one ShowState shared by all the shows
get_state_mut_Shared(show_id) ==
    IF show_id \in DOMAIN show_state_ THEN show_state_[1] ELSE nullptr

get_state_mut(show_id) ==
    IF show_id \in DOMAIN show_state_ THEN show_state_[show_id] ELSE nullptr

get_state(show_id) ==
    IF show_id \in DOMAIN show_state_ THEN show_state_[show_id] ELSE nullptr

Cells == {show_state_[s] : s \in DOMAIN show_state_}

(***************************************************************************)
(* The loop body of list_available_seats: labels of the clear bits of      *)
(* mask, for i = from .. kSeatCount - 1.                                   *)
(***************************************************************************)
\* seat_label_from_index0 tabulated over the indices the loop passes
SeatLabel == [i \in 0..(kSeatCount - 1) |-> seat_label_from_index0(i)]

\* the polarity of the test reversed: the booked seats are listed
RECURSIVE AvailableFrom_Booked(_, _)
AvailableFrom_Booked(mask, i) ==
    IF i >= kSeatCount THEN <<>>
    ELSE IF BitAnd(mask, Shl1(i)) # Zero
         THEN <<SeatLabel[i]>> \o AvailableFrom_Booked(mask, i + 1)
         ELSE AvailableFrom_Booked(mask, i + 1)

RECURSIVE AvailableFrom(_, _)
AvailableFrom(mask, i) ==
    IF i >= kSeatCount THEN <<>>
    ELSE IF BitAnd(mask, Shl1(i)) = Zero
         THEN <<SeatLabel[i]>> \o AvailableFrom(mask, i + 1)
         ELSE AvailableFrom(mask, i + 1)

\* the loop of lines 75-80 run from seat 0; the masks the requests of a run
\* can build have their listings worked out once
RequestMasks == {Encoded[labels].mask : labels \in DOMAIN Encoded}

MaskValues == {UNION S : S \in SUBSET RequestMasks}

Available == [mask \in MaskValues |-> AvailableFrom(mask, 0)]

AvailableSeats(mask) ==
    IF mask \in MaskValues THEN Available[mask] ELSE AvailableFrom(mask, 0)

(***************************************************************************)
(* The pieces of the CAS loop of book_seats.                               *)
(***************************************************************************)
\* the check left out: no request is ever found to overlap
Overlaps_Never(current, req) == FALSE

\* line 102: (current & req) != 0u
Overlaps(current, req) == BitAnd(current, req) # Zero

\* & written for |
Desired_And(current, req) == BitAnd(current, req)

\* desired built from the request alone
Desired_ReqOnly(current, req) == req

\* only the lowest requested seat merged into the mask
Desired_LowestSeat(current, req) ==
    BitOr(current, {i \in req : \A j \in req : i <= j})

\* line 105: desired = current | req
Desired(current, req) == BitOr(current, req)

\* a compare-and-set that never finds the expected value
CasMatches_Never(actual, expected) == FALSE

\* a plain store in place of the compare-and-set: nothing is compared
CasMatches_Blind(actual, expected) == TRUE

\* line 106: the comparison compare_exchange_weak makes (actual == expected)
CasMatches(actual, expected) == actual = expected

\* `current` not refreshed by a failed compare-and-set
CasReload_Stale(actual, expected) == expected

\* line 106: the value compare_exchange_weak leaves in `current` when it fails
CasReload(actual, expected) == actual

(***************************************************************************)
(* State.                                                                  *)
(***************************************************************************)
VARIABLES
    booked_mask,   \* [cell -> mask]: ShowState::booked_mask of every show
    pc,            \* [thread -> position]: idle, check (line 102), cas (line 106), done
    op,            \* [thread -> "none" | "book" | "list"]: the call in progress / last made
    show_id,       \* [thread -> int]: argument show_id
    seat_labels,   \* [thread -> sequence of labels]: argument seat_labels
    req,           \* [thread -> mask]: local req of book_seats
    current,       \* [thread -> mask]: local current of book_seats
    result,        \* [thread -> BookingResult]: what book_seats returned
    out,           \* [thread -> sequence of labels]: what list_available_seats returned
    calls,         \* number of API calls started so far
    snap,          \* history: the mask value list_available_seats loaded
    wrote,         \* history: <<cell, bit>> pairs the current call changed
    fails,         \* history: CAS failures of the current call with the mask changed (at most MaxCalls counted)
    spurious,      \* history: a CAS of the current call failed with the mask unchanged
    otherWins,     \* history: successful CAS of other threads on this cell during the call
    foreign,       \* history: a CAS on another cell succeeded during the call
    wins,          \* history: [cell -> sequence of the request masks committed, in CAS order]
    fn,            \* the static helper called on its own: "none", "parse", "format", "encode"
    arg,           \* the argument of that call
    ret,           \* what the call returned
    step           \* how many steps of that call have been taken

\* the variables of the booking service and its callers
service == <<booked_mask, pc, op, show_id, seat_labels, req, current, result, out,
             calls, snap, wrote, fails, spurious, otherWins, foreign, wins>>

\* the variables of a call of a static helper
helper == <<fn, arg, ret, step>>

vars == <<booked_mask, pc, op, show_id, seat_labels, req, current, result, out,
          calls, snap, wrote, fails, spurious, otherWins, foreign, wins,
          fn, arg, ret, step>>

\* the service as the constructor leaves it, no call made
ServiceInit ==
    /\ booked_mask = [c \in Cells |-> Zero]
    /\ pc = [t \in Threads |-> "idle"]
    /\ op = [t \in Threads |-> "none"]
    /\ show_id = [t \in Threads |-> 0]
    /\ seat_labels = [t \in Threads |-> <<>>]
    /\ req = [t \in Threads |-> Zero]
    /\ current = [t \in Threads |-> Zero]
    /\ result = [t \in Threads |-> NoResult]
    /\ out = [t \in Threads |-> <<>>]
    /\ calls = 0
    /\ snap = [t \in Threads |-> Zero]
    /\ wrote = [t \in Threads |-> {}]
    /\ fails = [t \in Threads |-> 0]
    /\ spurious = [t \in Threads |-> FALSE]
    /\ otherWins = [t \in Threads |-> 0]
    /\ foreign = [t \in Threads |-> FALSE]
    /\ wins = [c \in Cells |-> <<>>]

Init ==
    /\ ServiceInit
    /\ fn = "none" /\ arg = <<>> /\ ret = <<>> /\ step = 0

\* a failure counter; no call fails more often than there are calls
CountUp(n) == IF n < MaxCalls THEN n + 1 ELSE n

InLoop(t) == op[t] = "book" /\ pc[t] \in {"check", "cas"}

Returned(t) == pc[t] = "done"

\* A thread makes a call when it is not inside one.  The threads are
\* interchangeable, so they make their first calls in the order of their
\* numbers: every run is such a run with its threads renamed.
CanCall(t) ==
    /\ pc[t] \in {"idle", "done"}
    /\ calls < MaxCalls
    /\ \A u \in Threads : u < t => pc[u] # "idle"

\* the cell a thread's call works on
Cell(t) == get_state_mut(show_id[t])

\* entry to a call: arguments stored, locals and history of the call fresh
Enter(t, kind, s, labels) ==
    /\ op' = [op EXCEPT ![t] = kind]
    /\ show_id' = [show_id EXCEPT ![t] = s]
    /\ seat_labels' = [seat_labels EXCEPT ![t] = labels]
    /\ calls' = calls + 1
    /\ fails' = [fails EXCEPT ![t] = 0]
    /\ spurious' = [spurious EXCEPT ![t] = FALSE]
    /\ otherWins' = [otherWins EXCEPT ![t] = 0]
    /\ foreign' = [foreign EXCEPT ![t] = FALSE]
    /\ UNCHANGED helper

\* the bits in which two values of a cell's mask differ, as <<cell, bit>> pairs
Changed(c, old, new) == {<<c, i>> : i \in (old \ new) \cup (new \ old)}

\* book_seats committing each seat as soon as its label is parsed, so that a
\* request rejected at a later label leaves the earlier seats booked
BookSeats_CommitFirst(t, s, labels) ==
    /\ CanCall(t)
    /\ Enter(t, "book", s, labels)
    /\ LET st == get_state_mut(s)
           r == Encoded[labels]
           parsed == {try_parse_seat_label(labels[k]).index0 :
                        k \in {j \in DOMAIN labels : try_parse_seat_label(labels[j]).ok}}
           early == st = nullptr \/ labels = <<>> \/ r.err # ""
           stored == IF st # nullptr /\ r.err # "" THEN booked_mask[st] \cup parsed
                     ELSE IF st # nullptr THEN booked_mask[st] ELSE Zero
       IN  /\ result' = [result EXCEPT ![t] =
                  IF st = nullptr THEN Result(FALSE, MsgInvalidShow, NoLabel)
                  ELSE IF labels = <<>> THEN Result(FALSE, MsgNoSeats, NoLabel)
                  ELSE IF r.err # "" THEN Result(FALSE, r.err, r.label)
                  ELSE NoResult]
           /\ req' = [req EXCEPT ![t] = IF st = nullptr \/ labels = <<>> THEN Zero ELSE r.mask]
           /\ current' = [current EXCEPT ![t] = IF early THEN Zero ELSE booked_mask[st]]
           /\ pc' = [pc EXCEPT ![t] = IF early THEN "done" ELSE "check"]
           /\ booked_mask' = IF st = nullptr THEN booked_mask
                             ELSE [booked_mask EXCEPT ![st] = stored]
           /\ wrote' = [wrote EXCEPT ![t] =
                  IF st = nullptr THEN {} ELSE Changed(st, booked_mask[st], stored)]
    /\ out' = [out EXCEPT ![t] = <<>>]
    /\ snap' = [snap EXCEPT ![t] = Zero]
    /\ UNCHANGED wins

\* the show looked up with operator[] of the map: an unknown id gets an
\* entry of its own before the call is rejected
BookSeats_Registers(t, s, labels) ==
    /\ CanCall(t)
    /\ Enter(t, "book", s, labels)
    /\ LET st == get_state_mut(s)
           r == Encoded[labels]
           early == st = nullptr \/ labels = <<>> \/ r.err # ""
       IN  /\ result' = [result EXCEPT ![t] =
                  IF st = nullptr THEN Result(FALSE, MsgInvalidShow, NoLabel)
                  ELSE IF labels = <<>> THEN Result(FALSE, MsgNoSeats, NoLabel)
                  ELSE IF r.err # "" THEN Result(FALSE, r.err, r.label)
                  ELSE NoResult]
           /\ req' = [req EXCEPT ![t] = IF st = nullptr \/ labels = <<>> THEN Zero ELSE r.mask]
           /\ current' = [current EXCEPT ![t] = IF early THEN Zero ELSE booked_mask[st]]
           /\ pc' = [pc EXCEPT ![t] = IF early THEN "done" ELSE "check"]
           /\ booked_mask' =
                  IF st # nullptr THEN booked_mask
                  ELSE [c \in DOMAIN booked_mask \cup {s} |->
                           IF c \in DOMAIN booked_mask THEN booked_mask[c] ELSE Zero]
    /\ out' = [out EXCEPT ![t] = <<>>]
    /\ snap' = [snap EXCEPT ![t] = Zero]
    /\ wrote' = [wrote EXCEPT ![t] = {}]
    /\ UNCHANGED wins

\* the error of seats_to_mask_or_fail not looked at: the mask it returned
\* goes to the CAS loop
BookSeats_IgnoresError(t, s, labels) ==
    /\ CanCall(t)
    /\ Enter(t, "book", s, labels)
    /\ LET st == get_state_mut(s)
           r == Encoded[labels]
           early == st = nullptr \/ labels = <<>>
       IN  /\ result' = [result EXCEPT ![t] =
                  IF st = nullptr THEN Result(FALSE, MsgInvalidShow, NoLabel)
                  ELSE IF labels = <<>> THEN Result(FALSE, MsgNoSeats, NoLabel)
                  ELSE NoResult]
           /\ req' = [req EXCEPT ![t] = IF early THEN Zero ELSE r.mask]
           /\ current' = [current EXCEPT ![t] = IF early THEN Zero ELSE booked_mask[st]]
           /\ pc' = [pc EXCEPT ![t] = IF early THEN "done" ELSE "check"]
    /\ out' = [out EXCEPT ![t] = <<>>]
    /\ snap' = [snap EXCEPT ![t] = Zero]
    /\ wrote' = [wrote EXCEPT ![t] = {}]
    /\ UNCHANGED <<booked_mask, wins>>

\* book_seats looking at the label list before it resolves the show
BookSeats_ListFirst(t, s, labels) ==
    /\ CanCall(t)
    /\ Enter(t, "book", s, labels)
    /\ LET st == get_state_mut(s)
           r == Encoded[labels]
           early == labels = <<>> \/ r.err # "" \/ st = nullptr
       IN  /\ result' = [result EXCEPT ![t] =
                  IF labels = <<>> THEN Result(FALSE, MsgNoSeats, NoLabel)
                  ELSE IF r.err # "" THEN Result(FALSE, r.err, r.label)
                  ELSE IF st = nullptr THEN Result(FALSE, MsgInvalidShow, NoLabel)
                  ELSE NoResult]
           /\ req' = [req EXCEPT ![t] = IF labels = <<>> THEN Zero ELSE r.mask]
           /\ current' = [current EXCEPT ![t] = IF early THEN Zero ELSE booked_mask[st]]
           /\ pc' = [pc EXCEPT ![t] = IF early THEN "done" ELSE "check"]
    /\ out' = [out EXCEPT ![t] = <<>>]
    /\ snap' = [snap EXCEPT ![t] = Zero]
    /\ wrote' = [wrote EXCEPT ![t] = {}]
    /\ UNCHANGED <<booked_mask, wins>>

(***************************************************************************)
(* book_seats, lines 85-100: resolve the show, reject an empty list,       *)
(* encode the labels (all thread-local: show_state_ is never modified      *)
(* after construction) and, for a valid request, load the mask.            *)
(***************************************************************************)
BookSeats(t, s, labels) ==
    /\ CanCall(t)
    /\ Enter(t, "book", s, labels)
    /\ LET st == get_state_mut(s)
           r == Encoded[labels]       \* line 94: seats_to_mask_or_fail(seat_labels, err)
       IN  IF st = nullptr
           THEN /\ result' = [result EXCEPT ![t] = Result(FALSE, MsgInvalidShow, NoLabel)]
                /\ req' = [req EXCEPT ![t] = Zero]
                /\ current' = [current EXCEPT ![t] = Zero]
                /\ pc' = [pc EXCEPT ![t] = "done"]
           ELSE IF labels = <<>>
           THEN /\ result' = [result EXCEPT ![t] = Result(FALSE, MsgNoSeats, NoLabel)]
                /\ req' = [req EXCEPT ![t] = Zero]
                /\ current' = [current EXCEPT ![t] = Zero]
                /\ pc' = [pc EXCEPT ![t] = "done"]
           ELSE IF r.err # ""
           THEN /\ result' = [result EXCEPT ![t] = Result(FALSE, r.err, r.label)]
                /\ req' = [req EXCEPT ![t] = r.mask]
                /\ current' = [current EXCEPT ![t] = Zero]
                /\ pc' = [pc EXCEPT ![t] = "done"]
           ELSE /\ result' = [result EXCEPT ![t] = NoResult]
                /\ req' = [req EXCEPT ![t] = r.mask]
                /\ current' = [current EXCEPT ![t] = booked_mask[st]]   \* line 100
                /\ pc' = [pc EXCEPT ![t] = "check"]
    /\ out' = [out EXCEPT ![t] = <<>>]
    /\ snap' = [snap EXCEPT ![t] = Zero]
    /\ wrote' = [wrote EXCEPT ![t] = {}]
    /\ UNCHANGED <<booked_mask, wins>>

\* the rejection path booking the requested seats that were free
CheckReject_Partial(t) ==
    /\ op[t] = "book" /\ pc[t] = "check"
    /\ Overlaps(current[t], req[t])
    /\ LET c == Cell(t)
           stored == booked_mask[c] \cup req[t]
       IN  /\ booked_mask' = [booked_mask EXCEPT ![c] = stored]
           /\ wrote' = [wrote EXCEPT ![t] = @ \cup Changed(c, booked_mask[c], stored)]
    /\ result' = [result EXCEPT ![t] = Result(FALSE, MsgAlreadyBooked, NoLabel)]
    /\ pc' = [pc EXCEPT ![t] = "done"]
    /\ UNCHANGED <<op, show_id, seat_labels, req, current, out, calls,
                   snap, fails, spurious, otherWins, foreign, wins>>
    /\ UNCHANGED helper

\* lines 102-104: a requested seat is taken in `current`: return the rejection
CheckReject(t) ==
    /\ op[t] = "book" /\ pc[t] = "check"
    /\ Overlaps(current[t], req[t])
    /\ result' = [result EXCEPT ![t] = Result(FALSE, MsgAlreadyBooked, NoLabel)]
    /\ pc' = [pc EXCEPT ![t] = "done"]
    /\ UNCHANGED <<booked_mask, op, show_id, seat_labels, req, current, out, calls,
                   snap, wrote, fails, spurious, otherWins, foreign, wins>>
    /\ UNCHANGED helper

\* the loop run under a lock of the show: a call goes on to its
\* compare-and-set only while no other call on the show is at its own
CheckPass_Exclusive(t) ==
    /\ op[t] = "book" /\ pc[t] = "check"
    /\ ~Overlaps(current[t], req[t])
    /\ \A u \in Threads \ {t} : ~(InLoop(u) /\ pc[u] = "cas" /\ Cell(u) = Cell(t))
    /\ pc' = [pc EXCEPT ![t] = "cas"]
    /\ UNCHANGED <<booked_mask, op, show_id, seat_labels, req, current, result, out,
                   calls, snap, wrote, fails, spurious, otherWins, foreign, wins>>
    /\ UNCHANGED helper

\* lines 102, 105: no requested seat is taken in `current`: go on to the CAS
CheckPass(t) ==
    /\ op[t] = "book" /\ pc[t] = "check"
    /\ ~Overlaps(current[t], req[t])
    /\ pc' = [pc EXCEPT ![t] = "cas"]
    /\ UNCHANGED <<booked_mask, op, show_id, seat_labels, req, current, result, out,
                   calls, snap, wrote, fails, spurious, otherWins, foreign, wins>>
    /\ UNCHANGED helper

\* lines 106-108: compare_exchange_weak succeeds: desired is stored, Booked
CasSucceed(t) ==
    /\ op[t] = "book" /\ pc[t] = "cas"
    /\ CasMatches(booked_mask[Cell(t)], current[t])
    /\ LET c == Cell(t)
           desired == Desired(current[t], req[t])
       IN  /\ booked_mask' = [booked_mask EXCEPT ![c] = desired]
           /\ wrote' = [wrote EXCEPT ![t] = @ \cup Changed(c, booked_mask[c], desired)]
           /\ wins' = [wins EXCEPT ![c] = Append(@, req[t])]
           /\ otherWins' = [u \in Threads |->
                  IF u # t /\ InLoop(u) /\ Cell(u) = c
                  THEN otherWins[u] + 1 ELSE otherWins[u]]
           /\ foreign' = [u \in Threads |->
                  foreign[u] \/ (u # t /\ InLoop(u) /\ Cell(u) # c)]
    /\ result' = [result EXCEPT ![t] = Result(TRUE, MsgBooked, NoLabel)]
    /\ pc' = [pc EXCEPT ![t] = "done"]
    /\ UNCHANGED <<op, show_id, seat_labels, req, current, out, calls, snap,
                   fails, spurious>>
    /\ UNCHANGED helper

\* a failed compare-and-set answered as a rejection, with no retry
CasFail_GiveUp(t) ==
    /\ op[t] = "book" /\ pc[t] = "cas"
    /\ ~CasMatches(booked_mask[Cell(t)], current[t])
    /\ fails' = [fails EXCEPT ![t] = CountUp(@)]
    /\ result' = [result EXCEPT ![t] = Result(FALSE, MsgAlreadyBooked, NoLabel)]
    /\ pc' = [pc EXCEPT ![t] = "done"]
    /\ UNCHANGED <<booked_mask, op, show_id, seat_labels, req, current, out, calls,
                   snap, wrote, spurious, otherWins, foreign, wins>>
    /\ UNCHANGED helper

\* lines 106, 109: compare_exchange_weak fails because the mask is no longer
\* `current`; current takes the mask's value and the loop goes round
CasFail(t) ==
    /\ op[t] = "book" /\ pc[t] = "cas"
    /\ ~CasMatches(booked_mask[Cell(t)], current[t])
    /\ current' = [current EXCEPT ![t] = CasReload(booked_mask[Cell(t)], current[t])]
    /\ fails' = [fails EXCEPT ![t] = CountUp(@)]
    /\ pc' = [pc EXCEPT ![t] = "check"]
    /\ UNCHANGED <<booked_mask, op, show_id, seat_labels, req, result, out, calls,
                   snap, wrote, spurious, otherWins, foreign, wins>>
    /\ UNCHANGED helper

\* lines 106, 109: compare_exchange_weak may fail spuriously, although the
\* mask still equals `current`; nothing is stored and the loop goes round
CasSpurious(t) ==
    /\ op[t] = "book" /\ pc[t] = "cas"
    /\ CasMatches(booked_mask[Cell(t)], current[t])
    /\ current' = [current EXCEPT ![t] = CasReload(booked_mask[Cell(t)], current[t])]
    /\ spurious' = [spurious EXCEPT ![t] = TRUE]
    /\ pc' = [pc EXCEPT ![t] = "check"]
    /\ UNCHANGED <<booked_mask, op, show_id, seat_labels, req, result, out, calls,
                   snap, wrote, fails, otherWins, foreign, wins>>
    /\ UNCHANGED helper

(***************************************************************************)
(* list_available_seats, lines 69-82: one atomic load, then a thread-local *)
(* decoding loop; an unknown show gives the empty vector.                  *)
(***************************************************************************)
ListSeats(t, s) ==
    /\ CanCall(t)
    /\ Enter(t, "list", s, <<>>)
    /\ LET st == get_state(s)
           mask == IF st = nullptr THEN Zero ELSE booked_mask[st]
       IN  /\ snap' = [snap EXCEPT ![t] = mask]
           /\ out' = [out EXCEPT ![t] =
                  IF st = nullptr THEN <<>> ELSE AvailableSeats(mask)]
    /\ req' = [req EXCEPT ![t] = Zero]
    /\ current' = [current EXCEPT ![t] = Zero]
    /\ result' = [result EXCEPT ![t] = NoResult]
    /\ pc' = [pc EXCEPT ![t] = "done"]
    /\ wrote' = [wrote EXCEPT ![t] = {}]
    /\ UNCHANGED <<booked_mask, wins>>

\* the steps of a thread inside the CAS loop of book_seats
LoopStep(t) ==
    CheckReject(t) \/ CheckPass(t) \/ CasSucceed(t) \/ CasFail(t) \/ CasSpurious(t)

Next ==
    \/ \E t \in Threads, c \in BookCalls : BookSeats(t, c[1], c[2])
    \/ \E t \in Threads, s \in CallShows : ListSeats(t, s)
    \/ \E t \in Threads : CheckReject(t)
    \/ \E t \in Threads : CheckPass(t)
    \/ \E t \in Threads : CasSucceed(t)
    \/ \E t \in Threads : CasFail(t)
    \/ \E t \in Threads : CasSpurious(t)

Spec == Init /\ [][Next]_vars


(***************************************************************************)
(* Vocabulary of the properties.                                           *)
(***************************************************************************)
Booked(t) == op[t] = "book" /\ Returned(t)

Claimed(t) == Booked(t) /\ result[t].success

RejectedAs(t, msg) == Booked(t) /\ ~result[t].success /\ result[t].message = msg

AlreadyBooked(t) == RejectedAs(t, MsgAlreadyBooked)

Listed(t) == op[t] = "list" /\ Returned(t)

Registered(s) == s \in shows_

\* the committed mask of a registered show
MaskOf(s) == booked_mask[get_state(s)]

\* the bits the successful claims recorded for a cell have set, up to the k-th
RECURSIVE UnionUpTo(_, _)
UnionUpTo(w, k) == IF k = 0 THEN {} ELSE UnionUpTo(w, k - 1) \cup w[k]

Range(f) == {f[k] : k \in DOMAIN f}

(***************************************************************************)
(* The static helpers called on their own.  try_parse_seat_label,          *)
(* seat_label_from_index0 and seats_to_mask_or_fail are static functions   *)
(* of their arguments: a call reads and writes nothing of the service.     *)
(* A run of HelperSpec picks one helper and one argument and makes the     *)
(* call; a formatted label is then parsed back.                            *)
(***************************************************************************)
MaxLabelLen == 3     \* characters of a label passed to try_parse_seat_label
MaxLabels == 3       \* labels of a list passed to seats_to_mask_or_fail

\* characters a label is made of
Chars ==
    {"a", "A", "b", "x", "0", "1", "2", "3", "4", "5", "6", "7", "8", "9",
     "+", "-", " "}

StringsUpTo(n) == UNION {[1..k -> Chars] : k \in 0..n}

\* longer labels: around the limits of int, and with leading zeros
LongLabels ==
    { <<"a", "2", "1", "4", "7", "4", "8", "3", "6", "4", "7">>,
      <<"a", "2", "1", "4", "7", "4", "8", "3", "6", "4", "8">>,
      <<"a", "-", "2", "1", "4", "7", "4", "8", "3", "6", "4", "8">>,
      <<"a", "-", "2", "1", "4", "7", "4", "8", "3", "6", "4", "9">>,
      <<"a", "9", "9", "9", "9", "9", "9", "9", "9", "9", "9", "9">>,
      <<"a", "0", "0", "0", "0", "0", "0", "0", "0", "0", "0", "2", "0">>,
      <<"A", "0", "0", "2", "0">>,
      <<"a", "1", "0", "0">> }

LabelInputs == StringsUpTo(MaxLabelLen) \cup LongLabels

\* labels the lists are made of: two spellings of seat 1, seat 2, and two
\* labels that do not parse
LabelPool == {a1, <<"A", "1">>, a2, a21, <<"b", "1">>}

ListInputs == UNION {[1..k -> LabelPool] : k \in 0..MaxLabels}

HelperInit ==
    /\ ServiceInit
    /\ step = 0
    /\ ret = <<>>
    /\ \/ fn = "parse" /\ arg \in LabelInputs
       \/ fn = "format" /\ arg \in SeatIndices
       \/ fn = "encode" /\ arg \in ListInputs

\* try_parse_seat_label(arg, out_index0)
TryParseSeatLabel ==
    /\ fn = "parse" /\ step = 0
    /\ ret' = try_parse_seat_label(arg)
    /\ step' = 1
    /\ UNCHANGED <<fn, arg>>
    /\ UNCHANGED service

\* seat_label_from_index0(arg)
SeatLabelFromIndex0 ==
    /\ fn = "format" /\ step = 0
    /\ ret' = seat_label_from_index0(arg)
    /\ step' = 1
    /\ UNCHANGED <<fn, arg>>
    /\ UNCHANGED service

\* try_parse_seat_label on the label seat_label_from_index0 returned
ParseFormatted ==
    /\ fn = "format" /\ step = 1
    /\ ret' = try_parse_seat_label(ret)
    /\ step' = 2
    /\ UNCHANGED <<fn, arg>>
    /\ UNCHANGED service

\* seats_to_mask_or_fail(arg, out_error)
SeatsToMaskOrFail ==
    /\ fn = "encode" /\ step = 0
    /\ ret' = seats_to_mask_or_fail(arg)
    /\ step' = 1
    /\ UNCHANGED <<fn, arg>>
    /\ UNCHANGED service

HelperNext ==
    \/ TryParseSeatLabel
    \/ SeatLabelFromIndex0
    \/ ParseFormatted
    \/ SeatsToMaskOrFail

HelperSpec == HelperInit /\ [][HelperNext]_vars

(***************************************************************************)
(* C1  No overbooking.  The request masks of the claims that succeeded on  *)
(* one show are pairwise disjoint (no seat bit is attributed to two        *)
(* successful claims), and no two calls on one show whose request masks    *)
(* share a bit have both returned success.                                 *)
(***************************************************************************)
NoOverbooking ==
    /\ \A c \in Cells : \A i, j \in DOMAIN wins[c] :
          i < j => wins[c][i] \cap wins[c][j] = {}
    /\ \A t, u \in Threads :
          (t # u /\ Claimed(t) /\ Claimed(u) /\ show_id[t] = show_id[u])
             => req[t] \cap req[u] = {}

\* two overlapping claims ran concurrently on one show: one won while the
\* other was in its loop, and the other was rejected
NoOverbookingWitness ==
    \E t, u \in Threads :
        /\ t # u /\ show_id[t] = show_id[u]
        /\ req[t] \cap req[u] # {}
        /\ Claimed(t) /\ AlreadyBooked(u)
        /\ otherWins[u] > 0

(***************************************************************************)
(* C2  All-or-nothing.  A book_seats call that returned "One or more seats *)
(* already booked" changed no bit of any mask, and every requested seat    *)
(* that is booked was committed by a claim that succeeded; in the step     *)
(* that rejects, every mask after the step equals the mask before it.      *)
(***************************************************************************)
AllOrNothing ==
    \A t \in Threads :
        AlreadyBooked(t) =>
            /\ wrote[t] = {}
            /\ req[t] \cap MaskOf(show_id[t])
                  \subseteq UnionUpTo(wins[Cell(t)], Len(wins[Cell(t)]))

\* after a1, a2, a3 were booked, [a1, a4] was rejected and a later listing
\* of the show still has a4
AllOrNothingWitness ==
    \E t, u \in Threads :
        /\ AlreadyBooked(t) /\ show_id[t] = 1 /\ seat_labels[t] = <<a1, a4>>
        /\ wins[1] = << {0, 1, 2} >>
        /\ Listed(u) /\ show_id[u] = 1 /\ snap[u] = {0, 1, 2}
        /\ a4 \in Range(out[u]) /\ a1 \notin Range(out[u])

(***************************************************************************)
(* C3  Validation precedes mutation.  A book_seats call that returned      *)
(* without success changed no bit of any mask; one that returned "Invalid  *)
(* show id", "No seats provided", "Invalid seat label" or "Duplicate seat  *)
(* label" made no compare-and-set attempt at all.                          *)
(***************************************************************************)
ValidationMessages == {MsgInvalidShow, MsgNoSeats, MsgInvalidLabel, MsgDuplicateLabel}

ValidationPrecedesMutation ==
    \A t \in Threads :
        /\ (Booked(t) /\ ~result[t].success) => wrote[t] = {}
        /\ (Booked(t) /\ result[t].message \in ValidationMessages) =>
              /\ ~result[t].success
              /\ fails[t] = 0 /\ ~spurious[t]
              /\ \A c \in Cells : booked_mask[c] = UnionUpTo(wins[c], Len(wins[c]))

\* a duplicate request naming a free seat was rejected and the seat is free
ValidationWitness ==
    \E t \in Threads :
        /\ RejectedAs(t, MsgDuplicateLabel) /\ result[t].label = a1
        /\ seat_labels[t] = <<a1, a1>>
        /\ MaskOf(show_id[t]) = {}
        /\ calls > 1

(***************************************************************************)
(* C4  Effect of a successful claim.  The step in which book_seats         *)
(* succeeds changes the show's mask from the value `current` it last read, *)
(* which shares no bit with the request, to exactly current | req, where   *)
(* req holds the indices of the labels asked for; no other mask changes;   *)
(* the seats listed as available after the step are those listed before    *)
(* it without the requested ones.  On a fresh show [a1, a2, a3] leaves     *)
(* a4 .. a20.                                                              *)
(***************************************************************************)
ClaimStep(t) == pc[t] = "cas" /\ pc'[t] = "done" /\ result'[t].success

ListingOf(mask) == AvailableSeats(mask)

EffectOfClaim ==
    [][\A t \in Threads :
         ClaimStep(t) =>
           LET c == Cell(t)
               before == booked_mask[c]
               after == booked_mask'[c]
           IN  /\ before = current[t]
               /\ before \cap req[t] = {}
               /\ after = before \cup req[t]
               /\ req[t] = {try_parse_seat_label(seat_labels[t][k]).index0 :
                                k \in DOMAIN seat_labels[t]}
               /\ req[t] # {}
               /\ \A d \in Cells \ {c} : booked_mask'[d] = booked_mask[d]
               /\ Range(ListingOf(after))
                     = Range(ListingOf(before)) \ {AllLabels[i + 1] : i \in req[t]}
               /\ (before = {} /\ seat_labels[t] = <<a1, a2, a3>>)
                     => ListingOf(after) = SubSeq(AllLabels, 4, kSeatCount)
      ]_vars

\* [a1, a2, a3] succeeded on a show where a10 was booked, and a later
\* listing excludes exactly the four seats
EffectOfClaimWitness ==
    \E t, u \in Threads :
        /\ Claimed(t) /\ seat_labels[t] = <<a1, a2, a3>> /\ show_id[t] = 1
        /\ current[t] = {9}
        /\ Listed(u) /\ show_id[u] = 1
        /\ Range(out[u]) = Range(AllLabels) \ {a1, a2, a3, a10}

(***************************************************************************)
(* C5  Exactly one winner.  When every thread has made one book_seats call *)
(* for the same single free seat of the same show and all calls have       *)
(* returned, exactly one returned success and all others returned "One or  *)
(* more seats already booked".                                             *)
(***************************************************************************)
SameSeatRace(s, labels) ==
    /\ calls = NumThreads
    /\ Registered(s) /\ Len(labels) = 1
    /\ \A t \in Threads : Booked(t) /\ show_id[t] = s /\ seat_labels[t] = labels

ExactlyOneWinner ==
    \A s \in CallShows, labels \in Requests :
        (SameSeatRace(s, labels) /\ Encoded[labels].err = "") =>
            /\ Cardinality({t \in Threads : Claimed(t)}) = 1
            /\ \A t \in Threads : Claimed(t) \/ AlreadyBooked(t)

\* all threads raced for a10 on show 1 and have returned; the losers were
\* inside their loops when the winner committed
ExactlyOneWinnerWitness ==
    /\ SameSeatRace(1, <<a10>>)
    /\ \A t \in Threads : Claimed(t) \/ otherWins[t] > 0


(***************************************************************************)
(* Scheduling: a thread inside book_seats keeps running, so a step of its  *)
(* loop that stays possible is eventually taken.  Nothing is assumed about *)
(* which way a compare_exchange_weak on an unchanged mask goes.            *)
(***************************************************************************)
FairSpec == Spec /\ \A t \in Threads : WF_vars(LoopStep(t))

Retries(t) == fails[t] + (IF spurious[t] THEN 1 ELSE 0)

RetriesBoundedByProgress ==
    \A t \in Threads :
        op[t] = "book" => ~spurious[t] /\ Retries(t) <= otherWins[t]

(***************************************************************************)
(* C7  Retries bounded by progress, amended: the failed compare-and-sets   *)
(* of a book_seats call that found the mask changed number at most the     *)
(* claims of other threads that succeeded on the show during the call, and *)
(* a call about to attempt its compare-and-set on a changed mask has seen  *)
(* fewer such failures than there were such claims.  (A failure on an      *)
(* unchanged mask, a spurious one, is not counted.)                        *)
(***************************************************************************)
RealRetriesBoundedByProgress ==
    \A t \in Threads :
        op[t] = "book" =>
            /\ fails[t] <= otherWins[t]
            /\ (pc[t] = "cas" /\ booked_mask[Cell(t)] # current[t])
                  => fails[t] < otherWins[t]

\* a call succeeded after its compare-and-set had failed on a changed mask
RetriesWitness ==
    \E t \in Threads : Claimed(t) /\ fails[t] = 1 /\ otherWins[t] = 1 /\ ~spurious[t]

(***************************************************************************)
(* C8  Cross-unit independence.  A step of a thread whose call is on show  *)
(* A changes the mask of no other show, and leaves every thread whose call *)
(* is on another show exactly as it was: its position, its `current`, its  *)
(* result, its count of failed compare-and-sets, and whether its next      *)
(* compare-and-set finds the mask changed.                                 *)
(***************************************************************************)
Local(t) == <<pc[t], op[t], show_id[t], seat_labels[t], req[t], current[t],
              result[t], out[t], fails[t], spurious[t], otherWins[t]>>

MaskChanged(t) == InLoop(t) /\ MaskOf(show_id[t]) # current[t]

CrossUnitIndependence ==
    [][\A t \in Threads :
         Local(t)' # Local(t) =>
           /\ \A s \in shows_ \ {show_id'[t]} : MaskOf(s)' = MaskOf(s)
           /\ \A u \in Threads \ {t} :
                 (Registered(show_id[u]) /\ show_id[u] # show_id'[t]) =>
                    /\ Local(u)' = Local(u)
                    /\ MaskChanged(u)' = MaskChanged(u)
      ]_vars

\* a claim on show 2 succeeded at its first compare-and-set although a
\* claim on show 1 was committed while it ran
CrossUnitWitness ==
    \E t, u \in Threads :
        /\ Claimed(t) /\ show_id[t] = 2 /\ foreign[t] /\ fails[t] = 0
        /\ Claimed(u) /\ show_id[u] = 1
        /\ MaskOf(1) # {} /\ MaskOf(2) = req[t]

(***************************************************************************)
(* C9  Monotonic committed mask.  In every step the new mask of every show *)
(* is a superset of the old one: no step clears a bit.                     *)
(***************************************************************************)
MonotonicMask ==
    [][\A c \in Cells : booked_mask[c] \subseteq booked_mask'[c]]_vars

\* a mask grew twice, and a rejection and a listing happened on it
MonotonicMaskWitness ==
    /\ Len(wins[1]) = 2
    /\ MaskOf(1) = {0, 1, 2, 9}
    /\ \E t \in Threads : Listed(t) /\ show_id[t] = 1 /\ snap[t] = {0, 1, 2, 9}

(***************************************************************************)
(* C10  list_available_seats on a registered show returns the labels       *)
(* a(i+1) of exactly the indices i in 0..19 whose bit is clear in the one  *)
(* mask value it loaded, in strictly ascending order of i; that value is   *)
(* the mask as it stood after some number of the successful claims; with   *)
(* nothing booked it returns a1 .. a20.                                    *)
(***************************************************************************)
ListReturnsClearBits ==
    \A t \in Threads :
        (Listed(t) /\ Registered(show_id[t])) =>
            LET free == {i \in SeatIndices : i \notin snap[t]}
                w == wins[get_state(show_id[t])]
            IN  /\ Len(out[t]) = Cardinality(free)
                /\ \A k \in 1..Len(out[t]) :
                      \E i \in free :
                          /\ out[t][k] = AllLabels[i + 1]
                          /\ Cardinality({j \in free : j < i}) = k - 1
                /\ \E k \in 0..Len(w) : snap[t] = UnionUpTo(w, k)
                /\ (snap[t] = {} => out[t] = AllLabels)

\* listings of show 1 with a1, a2, a3 booked and of a fresh show 2
ListWitness ==
    \E t, u \in Threads :
        /\ Listed(t) /\ show_id[t] = 1 /\ snap[t] = {0, 1, 2}
        /\ out[t] = SubSeq(AllLabels, 4, kSeatCount)
        /\ Listed(u) /\ show_id[u] = 2 /\ out[u] = AllLabels


(***************************************************************************)
(* C11  Unknown show on listing.  What list_available_seats returns for a  *)
(* show id that was never registered differs from what it returns for a    *)
(* registered show all of whose seats are booked (the empty vector), so    *)
(* the caller can tell the two apart.                                      *)
(***************************************************************************)
FullyBooked(mask) == SeatIndices \subseteq mask

UnknownShowDistinguished ==
    \A t, u \in Threads :
        ( /\ Listed(t) /\ ~Registered(show_id[t])
          /\ Listed(u) /\ Registered(show_id[u]) /\ FullyBooked(snap[u]) )
            => out[t] # out[u]


(***************************************************************************)
(* C12  Order of the checks of book_seats.  A call on an unknown show      *)
(* returns "Invalid show id" whatever its label list is; on a registered   *)
(* show an empty list returns "No seats provided"; a non-empty list with   *)
(* a label that does not parse or that repeats an earlier seat returns the *)
(* invalid-label or duplicate-label message, also when the seats it names  *)
(* are booked; only a call on a registered show with a non-empty list of   *)
(* valid, distinct labels enters the CAS loop or returns "already booked"  *)
(* or success.                                                             *)
(***************************************************************************)
IndexOf(lbl) == try_parse_seat_label(lbl).index0

WellFormed(labels) ==
    /\ \A k \in DOMAIN labels : try_parse_seat_label(labels[k]).ok
    /\ \A j, k \in DOMAIN labels : j < k => IndexOf(labels[j]) # IndexOf(labels[k])

\* the requests the callers pass that are well formed
WellFormedRequests == {labels \in DOMAIN Encoded : WellFormed(labels)}

OrderOfChecks ==
    \A t \in Threads :
        /\ Booked(t) =>
              LET msg == result[t].message
                  known == Registered(show_id[t])
                  labels == seat_labels[t]
              IN  /\ ~known => msg = MsgInvalidShow
                  /\ (known /\ labels = <<>>) => msg = MsgNoSeats
                  /\ (known /\ labels # <<>> /\ labels \notin WellFormedRequests)
                        => msg \in {MsgInvalidLabel, MsgDuplicateLabel}
                  /\ msg \in {MsgAlreadyBooked, MsgBooked}
                        => known /\ labels # <<>> /\ labels \in WellFormedRequests
        /\ InLoop(t) =>
              /\ Registered(show_id[t])
              /\ seat_labels[t] # <<>>
              /\ seat_labels[t] \in WellFormedRequests

\* [a1, a1] was reported as a duplicate on a show where a1 was booked, and
\* a malformed request on an unknown show was reported as an invalid show
OrderOfChecksWitness ==
    \E t, u \in Threads :
        /\ RejectedAs(t, MsgDuplicateLabel) /\ seat_labels[t] = <<a1, a1>>
        /\ Registered(show_id[t]) /\ 0 \in MaskOf(show_id[t])
        /\ RejectedAs(u, MsgInvalidShow) /\ seat_labels[u] = <<a21>>


(***************************************************************************)
(* C13  seats_to_mask_or_fail.  The labels are scanned in input order and  *)
(* the scan stops at the first offending position: a label that does not   *)
(* parse is reported as invalid, a label whose seat an earlier label of    *)
(* the list already named is reported as a duplicate, each naming that     *)
(* label, and the mask returned is then 0.  When every label parses and    *)
(* no seat repeats, no error is reported and the mask has exactly the      *)
(* bits of the parsed indices.  [a1, a1] gives a duplicate of a1 and       *)
(* [a21] an invalid a21.                                                   *)
(***************************************************************************)
Unparsable(labels, k) == ~try_parse_seat_label(labels[k]).ok

Repeats(labels, k) == \E j \in 1..(k - 1) : IndexOf(labels[j]) = IndexOf(labels[k])

Offending(labels) == {k \in DOMAIN labels : Unparsable(labels, k) \/ Repeats(labels, k)}

FirstOffending(labels) ==
    CHOOSE k \in Offending(labels) : \A j \in Offending(labels) : k <= j

EncodeFirstOffence ==
    (fn = "encode" /\ step = 1) =>
        /\ IF Offending(arg) = {}
           THEN /\ ret.err = ""
                /\ ret.mask = {IndexOf(arg[k]) : k \in DOMAIN arg}
           ELSE LET k == FirstOffending(arg)
                IN  /\ ret.mask = Zero
                    /\ ret.label = arg[k]
                    /\ ret.err = IF Unparsable(arg, k) THEN MsgInvalidLabel
                                 ELSE MsgDuplicateLabel
        /\ arg = <<a1, a1>> => ret.err = MsgDuplicateLabel /\ ret.label = a1
        /\ arg = <<a21>> => ret.err = MsgInvalidLabel /\ ret.label = a21

\* a list whose second label repeats the seat of the first under another
\* spelling and whose third label does not parse: the duplicate is reported
EncodeWitness ==
    /\ fn = "encode" /\ step = 1
    /\ arg = <<a1, <<"A", "1">>, a21>>
    /\ ret.err = MsgDuplicateLabel /\ ret.label = <<"A", "1">>


(***************************************************************************)
(* C14  try_parse_seat_label.  A label is accepted exactly when it is the  *)
(* letter a or A followed by decimal digits only (no sign, no white space, *)
(* nothing after the digits) whose value is in 1 .. 20; an accepted label  *)
(* returns its value minus one.                                            *)
(***************************************************************************)
\* the value of the digit string s[i..], counted no further than kSeatCount + 1
RECURSIVE DecimalFrom(_, _, _)
DecimalFrom(s, i, acc) ==
    IF i > Len(s) THEN acc
    ELSE LET v == 10 * acc + DigitVal(s[i])
         IN  DecimalFrom(s, i + 1, IF v > kSeatCount THEN kSeatCount + 1 ELSE v)

PlainLabel(label) ==
    /\ Len(label) >= 2
    /\ label[1] \in {"a", "A"}
    /\ \A k \in 2..Len(label) : IsDigit(label[k])
    /\ DecimalFrom(label, 2, 0) \in 1..kSeatCount

ParseAcceptsPlainLabelsOnly ==
    (fn = "parse" /\ step = 1) =>
        /\ ret.ok <=> PlainLabel(arg)
        /\ ret.ok => ret.index0 = DecimalFrom(arg, 2, 0) - 1


(***************************************************************************)
(* C15  Round trip.  For every index i in 0 .. 19 the label                *)
(* seat_label_from_index0(i) is accepted by try_parse_seat_label, which    *)
(* returns i.                                                              *)
(***************************************************************************)
RoundTrip ==
    (fn = "format" /\ step = 2) => (ret.ok /\ ret.index0 = arg)

\* index 19 was formatted and parsed back
RoundTripWitness ==
    fn = "format" /\ step = 2 /\ arg = kSeatCount - 1 /\ ret.ok /\ ret.index0 = arg


(***************************************************************************)
(* C16  Injective parse, as claimed.  Two different labels that            *)
(* try_parse_seat_label accepts never give the same index: the label       *)
(* parsed is the only accepted label with its index.  A label that is      *)
(* rejected gives no index: out_index0 is left as it was.                  *)
(***************************************************************************)
\* the labels among the inputs that try_parse_seat_label accepts
Accepted == {l \in LabelInputs : try_parse_seat_label(l).ok}

AcceptedAs == [i \in SeatIndices |-> {l \in Accepted : IndexOf(l) = i}]

NoIndexOnFailure == (fn = "parse" /\ step = 1 /\ ~ret.ok) => ret.index0 = NoIndex

ParseInjective ==
    /\ (fn = "parse" /\ step = 1 /\ ret.ok) => AcceptedAs[ret.index0] = {arg}
    /\ NoIndexOnFailure

(***************************************************************************)
(* C16  Injective parse, amended: try_parse_seat_label is injective on the *)
(* labels a1 .. a20 that seat_label_from_index0 produces: each of them is  *)
(* accepted, with an index in 0 .. 19 that no other of them has.  (Other   *)
(* accepted spellings, such as A1 or a01, share the index of one of        *)
(* them.)  A label that is rejected gives no index.                        *)
(***************************************************************************)
CanonicalIndex == [k \in 1..kSeatCount |-> try_parse_seat_label(AllLabels[k])]

ParseInjectiveOnCanonical ==
    /\ (fn = "parse" /\ step = 1 /\ arg \in Range(AllLabels)) =>
          /\ ret.ok
          /\ ret.index0 \in SeatIndices
          /\ \A k \in 1..kSeatCount :
                AllLabels[k] # arg => CanonicalIndex[k].index0 # ret.index0
    /\ (fn = "parse" /\ step = 1 /\ ret.ok) => ret.index0 \in SeatIndices
    /\ NoIndexOnFailure

\* a20 was parsed to 19, an index other accepted spellings give as well
ParseInjectiveWitness ==
    /\ fn = "parse" /\ step = 1
    /\ arg = AllLabels[kSeatCount] /\ ret.ok /\ ret.index0 = kSeatCount - 1
    /\ AcceptedAs[ret.index0] # {arg}


(***************************************************************************)
(* C17  Linearization.  For each show the successful claims are ordered by *)
(* their successful compare-and-sets (wins).  At every moment the mask of  *)
(* the show is the union of the request masks of the claims that have      *)
(* succeeded so far, and those are pairwise disjoint.  Every claim has the *)
(* outcome it has when the claims run one at a time in that order: the     *)
(* value `current` a call decides on is the mask after some prefix of the  *)
(* order (for a call in its loop, a prefix that ends no earlier than the   *)
(* call began); a successful claim extends exactly that prefix and shares  *)
(* no seat with it, a rejected one shares a seat with it.                  *)
(***************************************************************************)
\* the mask after the first k successful claims on cell c
MaskAfter(c, k) == UnionUpTo(wins[c], k)

Linearization ==
    /\ \A c \in Cells :
          /\ booked_mask[c] = MaskAfter(c, Len(wins[c]))
          /\ \A i, j \in DOMAIN wins[c] : i < j => wins[c][i] \cap wins[c][j] = {}
    /\ \A t \in Threads :
          LET c == Cell(t)
              n == Len(wins[c])
          IN  /\ InLoop(t) =>
                    \E k \in (n - otherWins[t])..n : current[t] = MaskAfter(c, k)
              /\ Claimed(t) =>
                    \E k \in 1..n :
                        /\ wins[c][k] = req[t]
                        /\ current[t] = MaskAfter(c, k - 1)
                        /\ req[t] \cap current[t] = {}
              /\ AlreadyBooked(t) =>
                    \E k \in 1..n :
                        /\ current[t] = MaskAfter(c, k)
                        /\ req[t] \cap current[t] # {}

\* two claims succeeded on show 1, and a third, which had loaded the mask
\* between them, failed its compare-and-set and was rejected on the reload
LinearizationWitness ==
    \E t \in Threads :
        /\ AlreadyBooked(t) /\ show_id[t] = 1 /\ fails[t] > 0
        /\ Len(wins[Cell(t)]) = 2
        /\ current[t] = MaskAfter(Cell(t), 2)
        /\ req[t] \cap wins[Cell(t)][1] = {}


(***************************************************************************)
(* C18  No false rejection.  A book_seats call returns "already booked"    *)
(* only if a requested seat is set in the value of the mask it last read,  *)
(* a committed value, the seat having been set by another, successful      *)
(* claim.  So a call that has returned, with a valid request on a          *)
(* registered show none of whose seats another claim has booked, has       *)
(* returned success, whatever the interleaving.                            *)
(***************************************************************************)
\* the seats of its show the thread's current call has booked
OwnSeats(t) == {i \in SeatIndices : <<Cell(t), i>> \in wrote[t]}

NoFalseRejection ==
    \A t \in Threads :
        LET c == Cell(t)
        IN  /\ AlreadyBooked(t) =>
                  /\ req[t] \cap current[t] # {}
                  /\ current[t] \subseteq booked_mask[c]
                  /\ OwnSeats(t) = {}
                  /\ \E k \in DOMAIN wins[c] :
                        wins[c][k] \subseteq current[t] /\ wins[c][k] \cap req[t] # {}
            /\ ( /\ Booked(t) /\ Registered(show_id[t])
                 /\ seat_labels[t] # <<>> /\ seat_labels[t] \in WellFormedRequests
                 /\ req[t] \cap (booked_mask[c] \ OwnSeats(t)) = {} )
                  => Claimed(t)

\* two claims for disjoint seats of one show ran concurrently, one of them
\* retried after the other's compare-and-set, and both succeeded
NoFalseRejectionWitness ==
    \E t, u \in Threads :
        /\ t # u /\ show_id[t] = show_id[u]
        /\ Claimed(t) /\ Claimed(u)
        /\ req[t] \cap req[u] = {}
        /\ fails[t] > 0 /\ otherWins[t] > 0


(***************************************************************************)
(* The scheduling lock-freedom speaks of: any thread may stop for ever,    *)
(* but while calls are inside the loop on a show, steps of calls on that   *)
(* show keep being taken.                                                  *)
(***************************************************************************)
\* the threads inside the CAS loop of a call on cell c
LoopOn(c) == {t \in Threads : InLoop(t) /\ Cell(t) = c}

StepOn(c) == \E t \in Threads : Cell(t) = c /\ LoopStep(t)

LockFreeSpec == Spec /\ \A c \in Cells : WF_vars(StepOn(c))

\* no thread, wherever it stands, disables the next step of another thread's
\* call: a call inside its loop can always take a step
NeverBlocked == \A t \in Threads : InLoop(t) => ENABLED LoopStep(t)

\* one of the calls now inside the loop on c returns
Progress(c) ==
    \A S \in (SUBSET Threads) \ {{}} :
        (LoopOn(c) = S) ~> (\E t \in S : Returned(t))

SpuriousOn(c) == \E t \in Threads : Cell(t) = c /\ CasSpurious(t)

LabelsOf(seats) == {AllLabels[i + 1] : i \in seats}

SnapshotAtomicity ==
    \A t \in Threads :
        (Listed(t) /\ Registered(show_id[t])) =>
            LET c == get_state(show_id[t])
                listed == Range(out[t])
            IN  /\ \E k \in 0..Len(wins[c]) :
                      /\ snap[t] = MaskAfter(c, k)
                      /\ listed = LabelsOf(SeatIndices \ MaskAfter(c, k))
                /\ \A k \in DOMAIN wins[c] :
                      \/ LabelsOf(wins[c][k]) \subseteq listed
                      \/ LabelsOf(wins[c][k]) \cap listed = {}

\* a listing taken between two claims on one show: it names none of the
\* seats of the first and all three seats of the second
SnapshotWitness ==
    \E t, u \in Threads :
        /\ Listed(t) /\ Claimed(u) /\ show_id[t] = show_id[u]
        /\ snap[t] = current[u] /\ snap[t] # {}
        /\ Cardinality(req[u]) = 3
        /\ LabelsOf(req[u]) \subseteq Range(out[t])
        /\ LabelsOf(snap[t]) \cap Range(out[t]) = {}


(***************************************************************************)
(* C21  Registered shows fixed at construction.  At the start there is one *)
(* mask, 0, for every show the constructor registers; at all times the     *)
(* masks are those of the registered shows, one each; no step adds or      *)
(* removes a mask; a step that changes a mask is the successful            *)
(* compare-and-set of a call on that registered show, so that a call with  *)
(* an unknown show id, which never enters the loop and writes nothing,     *)
(* leaves every mask as it was.                                            *)
(***************************************************************************)
OneMaskPerShow ==
    /\ DOMAIN booked_mask = {get_state(s) : s \in shows_}
    /\ nullptr \notin DOMAIN booked_mask
    /\ \A s1, s2 \in shows_ : s1 # s2 => get_state(s1) # get_state(s2)
    /\ \A s \in shows_ : get_state_mut(s) = get_state(s)

UnknownShowCall(t) == op[t] # "none" /\ ~Registered(show_id[t])

UnknownCallsInert ==
    \A t \in Threads :
        UnknownShowCall(t) =>
            /\ Returned(t) /\ wrote[t] = {}
            /\ op[t] = "book" => RejectedAs(t, MsgInvalidShow)
            /\ op[t] = "list" => out[t] = <<>>

MaskStep ==
    /\ DOMAIN booked_mask' = DOMAIN booked_mask
    /\ \A c \in DOMAIN booked_mask :
          booked_mask'[c] # booked_mask[c] =>
              \E t \in Threads :
                  /\ ClaimStep(t) /\ Registered(show_id[t])
                  /\ get_state_mut(show_id[t]) = c
    /\ (\E t \in Threads : UnknownShowCall(t)' /\ Local(t)' # Local(t))
          => booked_mask' = booked_mask

RegisteredShowsFixed ==
    /\ \A c \in DOMAIN booked_mask : booked_mask[c] = Zero
    /\ [](OneMaskPerShow /\ UnknownCallsInert)
    /\ [][MaskStep]_vars

\* seats are booked on show 1, and a book_seats call and a listing with the
\* unknown id 9 have returned
RegisteredShowsWitness ==
    \E t, u \in Threads :
        /\ op[t] = "book" /\ show_id[t] = 9 /\ RejectedAs(t, MsgInvalidShow)
        /\ Listed(u) /\ show_id[u] = 9
        /\ MaskOf(1) # Zero


(***************************************************************************)
(* C22  Request mask never empty in the loop.  The request mask of a call  *)
(* that is in the CAS loop, or has returned from it, is not 0 and has as   *)
(* many bits as the call has labels, at least one.  A call rejected by     *)
(* seats_to_mask_or_fail holds the mask 0 it returned, never enters the    *)
(* loop and writes nothing.  A successful call has set exactly the bits of *)
(* its request, so it has enlarged the mask.                               *)
(***************************************************************************)
PassedValidation(t) == InLoop(t) \/ Claimed(t) \/ AlreadyBooked(t)

EncodeRejected(t) ==
    Booked(t) /\ result[t].message \in {MsgInvalidLabel, MsgDuplicateLabel}

RequestMaskNeverEmpty ==
    \A t \in Threads :
        /\ PassedValidation(t) =>
              /\ req[t] # Zero
              /\ Len(seat_labels[t]) >= 1
              /\ Cardinality(req[t]) = Len(seat_labels[t])
        /\ EncodeRejected(t) =>
              /\ req[t] = Zero
              /\ ~result[t].success
              /\ wrote[t] = {}
        /\ Claimed(t) =>
              /\ OwnSeats(t) = req[t]
              /\ OwnSeats(t) # {}
              /\ req[t] \subseteq booked_mask[Cell(t)]

\* a claim of three seats succeeded and a request with a repeated seat was
\* rejected with the mask 0
RequestMaskWitness ==
    \E t, u \in Threads :
        /\ Claimed(t) /\ Len(seat_labels[t]) = 3 /\ Cardinality(req[t]) = 3
        /\ EncodeRejected(u) /\ seat_labels[u] = <<a1, a1>> /\ req[u] = Zero


(***************************************************************************)
(* C23  High bits clear.  In every state bits 20 .. 31 of the mask of      *)
(* every show are 0, as are those of the request mask and of `current` of  *)
(* every call: only the bits of the 20 seats are ever set.                 *)
(***************************************************************************)
HighBits == BitPositions \ SeatIndices

HighBitsClear ==
    /\ \A c \in DOMAIN booked_mask : BitAnd(booked_mask[c], HighBits) = Zero
    /\ \A t \in Threads :
          /\ BitAnd(req[t], HighBits) = Zero
          /\ BitAnd(current[t], HighBits) = Zero
          /\ BitAnd(snap[t], HighBits) = Zero

\* all twenty seats of show 2 are booked, bit 19 among them, and a request
\* for a21 was rejected
HighBitsWitness ==
    \E t \in Threads :
        /\ RejectedAs(t, MsgInvalidLabel) /\ seat_labels[t] = <<a21>>
        /\ Registered(show_id[t])
        /\ MaskOf(2) = SeatIndices


(***************************************************************************)
(* C24  Capacity.  On every show the claims that have succeeded number at  *)
(* most the seats they hold, and the seats they requested add up to the    *)
(* number of bits set in the mask, which is at most 20.  Once all 20 bits  *)
(* are set the mask no longer changes, a call with a valid request that    *)
(* returns from then on returns "already booked", and a listing returns    *)
(* the empty vector.                                                       *)
(***************************************************************************)
\* the seats requested by the first k successful claims recorded in w
RECURSIVE SeatsClaimed(_, _)
SeatsClaimed(w, k) ==
    IF k = 0 THEN 0 ELSE SeatsClaimed(w, k - 1) + Cardinality(w[k])

CapacityBound ==
    \A c \in Cells :
        /\ Len(wins[c]) <= kSeatCount
        /\ Len(wins[c]) <= SeatsClaimed(wins[c], Len(wins[c]))
        /\ SeatsClaimed(wins[c], Len(wins[c])) = Cardinality(booked_mask[c])
        /\ Cardinality(booked_mask[c]) <= kSeatCount

FullHouseStep ==
    \A t \in Threads :
        LET s == show_id'[t]
        IN  ( /\ Local(t)' # Local(t)
              /\ Registered(s)
              /\ FullyBooked(MaskOf(s)) )
              => /\ booked_mask'[get_state(s)] = booked_mask[get_state(s)]
                 /\ op'[t] = "list" => out'[t] = <<>>
                 /\ ( /\ op'[t] = "book" /\ pc'[t] = "done"
                      /\ seat_labels'[t] # <<>>
                      /\ seat_labels'[t] \in WellFormedRequests )
                       => /\ ~result'[t].success
                          /\ result'[t].message = MsgAlreadyBooked

Capacity == []CapacityBound /\ [][FullHouseStep]_vars

\* show 2 is full; a claim made on it afterwards was rejected at its first
\* test and a listing of it returned nothing
CapacityWitness ==
    \E t, u \in Threads :
        /\ FullyBooked(MaskOf(2)) /\ Len(wins[get_state(2)]) = 1
        /\ AlreadyBooked(t) /\ show_id[t] = 2 /\ fails[t] = 0
        /\ FullyBooked(current[t])
        /\ Listed(u) /\ show_id[u] = 2 /\ out[u] = <<>>



(***************************************************************************)
(* C25  Duplicates are detected by seat index.  A book_seats call on a     *)
(* registered show whose request names a seat a second time under another  *)
(* spelling (a1 and then A1), every label before the second one being      *)
(* accepted, never enters the CAS loop: it returns the duplicate error     *)
(* carrying the later label as the caller wrote it, which differs from the *)
(* spelling used before, its request mask is 0 and it has written no bit.  *)
(***************************************************************************)
\* the position at which a list first offends, when the offence is a seat
\* repeated under a spelling no earlier label has; 0 for every other list
RespelledAt(labels) ==
    IF Offending(labels) = {} THEN 0
    ELSE LET k == FirstOffending(labels)
         IN  IF /\ ~Unparsable(labels, k)
                /\ \A j \in 1..(k - 1) : labels[j] # labels[k]
             THEN k ELSE 0

\* the requests whose first offence is a seat repeated under a new spelling
RespelledRequests ==
    [labels \in {r \in DOMAIN Encoded : RespelledAt(r) # 0} |-> RespelledAt(labels)]

DuplicateByIndex ==
    \A t \in Threads :
        ( /\ op[t] = "book" /\ pc[t] # "idle"
          /\ Registered(show_id[t])
          /\ seat_labels[t] \in DOMAIN RespelledRequests )
            => LET lbl == seat_labels[t][RespelledRequests[seat_labels[t]]]
               IN  /\ RejectedAs(t, MsgDuplicateLabel)
                   /\ result[t].label = lbl
                   /\ \E j \in DOMAIN seat_labels[t] :
                         /\ seat_labels[t][j] # lbl
                         /\ IndexOf(seat_labels[t][j]) = IndexOf(lbl)
                   /\ req[t] = Zero
                   /\ wrote[t] = {}

\* [a1, A1] on show 1 was rejected as a duplicate of A1 after a10 had been
\* claimed there, and seat 10 is the only seat booked
DuplicateByIndexWitness ==
    \E t, u \in Threads :
        /\ show_id[t] = 1 /\ seat_labels[t] = <<a1, A1>>
        /\ RejectedAs(t, MsgDuplicateLabel) /\ result[t].label = A1
        /\ Claimed(u) /\ show_id[u] = 1 /\ seat_labels[u] = <<a10>>
        /\ MaskOf(1) = {9}

=============================================================================
